---- MODULE Spec2Model ----
(***************************************************************************)
(* Model of libskloe.py: the Skloe_OutFile reader of SKLOE *.out files     *)
(* (binary record decoder, segment selection) and its model-to-prototype   *)
(* unit scaling (fix_unit, to_fullscale, findtrans).                       *)
(*                                                                         *)
(* Conventions                                                             *)
(*  - A unit string is a sequence of one-character strings, so that        *)
(*    lower(), split(), the 'in' tests and the trailing-digit test are     *)
(*    computed character by character as the code does.                    *)
(*  - A float that depends on the arguments g, rho, lam is kept exact as   *)
(*    a monomial  g^ge * 10^p10 * rho^re * lam^(le2/2)  (le2 is twice the  *)
(*    exponent of lam, which takes the value 0.5 for seconds).             *)
(*  - A data value is [v |-> raw*Coef, fac |-> the sequence of full-scale  *)
(*    factors it was multiplied by, in order].                             *)
(*  - An exception leaving a method is recorded in outcome ("raised");     *)
(*    an exception leaving the constructor leaves no object (pc "failed"). *)
(*  - Not modelled: the text fields (date, notes, start and stop times,     *)
(*    Duration), the exports and printing, and float rounding.             *)
(***************************************************************************)
EXTENDS Integers, Sequences, FiniteSets, TLC

VARIABLES
    pc,             \* "new" | "reading" | "done" | "failed" | "resolve" | "resolved"
    file,           \* the input: header fields, channel tables, segments, stream length
    s_seg,          \* the s_seg argument of the constructor
    f_pos,          \* f_in.tell()
    i_seg,          \* loop variable of the segment loop in read()
    hdr,            \* per segment read so far: [p_cur, off] of its header read
    seg_info,       \* read(): seg_info of each segment read so far
    seg_stat_buf,   \* read(): the local seg_statistic (raw tuples)
    data_buf,       \* read(): data_buf (raw rows)
    chN,            \* self.chN
    fs,             \* self.fs
    segN,           \* self.segN
    scale,          \* self.scale
    rholam,         \* <<self.rho, self.lam>>, <<>> while the attributes do not exist
    chInfo,         \* self.chInfo, one record per channel
    data,           \* self.data
    seg_statistic,  \* self.seg_statistic
    segInfo,        \* self.segInfo
    nFix,           \* number of fix_unit calls made (bounded)
    outcome,        \* last method call and how it ended
    r_g,            \* findtrans study: the g that trans_dic is built from
    r_unit,         \* findtrans study: the unit given
    r_trans         \* findtrans study: what findtrans did with it

vars == <<pc, file, s_seg, f_pos, i_seg, hdr, seg_info, seg_stat_buf, data_buf,
          chN, fs, segN, scale, rholam, chInfo, data, seg_statistic, segInfo,
          nFix, outcome, r_g, r_unit, r_trans>>

---------------------------------------------------------------------------
(* Bounds *)

MaxCh == 2

MaxSeg == 2

MaxRows == 2

MaxFix == 2

MaxTokenLen == 4

---------------------------------------------------------------------------
(* Characters and strings *)

\* (lower, upper) pairs of the letters that occur in the modelled units
CasePairs ==
    { <<"a","A">>, <<"c","C">>, <<"d","D">>, <<"e","E">>, <<"g","G">>,
      <<"k","K">>, <<"m","M">>, <<"n","N">>, <<"r","R">>, <<"s","S">>,
      <<"x","X">>, <<"y","Y">>, <<"z","Z">> }

Digits == {"0","1","2","3","4","5","6","7","8","9"}

DigitValue(c) ==
    CASE c = "0" -> 0 [] c = "1" -> 1 [] c = "2" -> 2 [] c = "3" -> 3
      [] c = "4" -> 4 [] c = "5" -> 5 [] c = "6" -> 6 [] c = "7" -> 7
      [] c = "8" -> 8 [] c = "9" -> 9

\* str.lower() on one character
LowerChar(c) ==
    IF \E p \in CasePairs : p[2] = c
    THEN (CHOOSE p \in CasePairs : p[2] = c)[1]
    ELSE c

\* str.lower()
Lower(u) == [i \in 1..Len(u) |-> LowerChar(u[i])]

\* sep in u
Contains(u, sep) == \E i \in 1..Len(u) : u[i] = sep

RECURSIVE Split(_, _)
\* u.split(sep): always at least one part, parts may be empty
Split(u, sep) ==
    IF ~Contains(u, sep) THEN <<u>>
    ELSE LET i == CHOOSE k \in 1..Len(u) :
                      u[k] = sep /\ \A j \in 1..(k-1) : u[j] # sep
         IN  <<SubSeq(u, 1, i-1)>> \o Split(SubSeq(u, i+1, Len(u)), sep)

RECURSIVE Join(_, _)
\* sep.join(parts)
Join(parts, sep) ==
    IF Len(parts) = 0 THEN <<>>
    ELSE IF Len(parts) = 1 THEN parts[1]
    ELSE parts[1] \o <<sep>> \o Join(Tail(parts), sep)

---------------------------------------------------------------------------
(* findtrans *)

\* the float g^ge * 10^p10
Num(g, ge, p10) == [g |-> IF ge = 0 THEN 0 ELSE g, ge |-> ge, p10 |-> p10]

NumMul(a, b) == Num(IF a.ge # 0 THEN a.g ELSE b.g, a.ge + b.ge, a.p10 + b.p10)

NumDiv(a, b) == Num(IF a.ge # 0 THEN a.g ELSE b.g, a.ge - b.ge, a.p10 - b.p10)

NumPow(a, n) == Num(a.g, a.ge * n, a.p10 * n)

\* [target, np.array([unit factor, rho exponent, lam exponent])]
Trans(target, cunit, crho, clam2) ==
    [target |-> target, cunit |-> cunit, crho |-> crho, clam2 |-> clam2]

\* keys of trans_dic
DicKeys ==
    { <<"k","g">>, <<"c","m">>, <<"m","m">>, <<"m">>, <<"s">>,
      <<"d","e","g">>, <<"r","a","d">>, <<"N">> }

\* trans_dic, built from the argument g
trans_dic(g) ==
    [k \in DicKeys |->
        CASE k = <<"k","g">>     -> Trans(<<"k","N">>, Num(g, 1, -3), 1, 6)
          [] k = <<"c","m">>     -> Trans(<<"m">>, Num(g, 0, -2), 0, 2)
          [] k = <<"m","m">>     -> Trans(<<"m">>, Num(g, 0, -3), 0, 2)
          [] k = <<"m">>         -> Trans(<<"m">>, Num(g, 0, 0), 0, 2)
          [] k = <<"s">>         -> Trans(<<"s">>, Num(g, 0, 0), 0, 1)
          [] k = <<"d","e","g">> -> Trans(<<"d","e","g">>, Num(g, 0, 0), 0, 0)
          [] k = <<"r","a","d">> -> Trans(<<"r","a","d">>, Num(g, 0, 0), 0, 0)
          [] k = <<"N">>         -> Trans(<<"k","N">>, Num(g, 0, -3), 1, 6)]

\* findtrans fell off its end after warnings.warn: the call returns None
None == [fail |-> "None"]

\* an exception left findtrans (None subscripted, split arity, empty string)
Raised == [fail |-> "Raised"]

IsTrans(t) == "fail" \notin DOMAIN t

\* the elif '/' branch, given the results of the two recursive calls
DivTrans(up, lo) ==
    IF ~IsTrans(up) \/ ~IsTrans(lo) THEN Raised
    ELSE Trans(up.target \o <<"/">> \o lo.target,
               NumDiv(up.cunit, lo.cunit),
               up.crho - lo.crho,
               up.clam2 - lo.clam2)

RECURSIVE DotProd(_, _)
\* the loops of the elif '.' branch over the results ts of the recursive calls
DotProd(ts, acc) ==
    IF Len(ts) = 0 THEN acc
    ELSE DotProd(Tail(ts),
                 Trans(Append(acc.target, ts[1].target),
                       NumMul(acc.cunit, ts[1].cunit),
                       acc.crho + ts[1].crho,
                       acc.clam2 + ts[1].clam2))

DotTrans(g, ts) ==
    IF \E i \in 1..Len(ts) : ~IsTrans(ts[i]) THEN Raised
    ELSE LET p == DotProd(ts, Trans(<<>>, Num(g, 0, 0), 0, 0))
         IN  Trans(Join(p.target, "."), p.cunit, p.crho, p.clam2)

\* the elif unit[-1].isdigit() branch
PowTrans(g, unit) ==
    LET n    == DigitValue(unit[Len(unit)])
        base == SubSeq(unit, 1, Len(unit) - 1)
    IN  IF base \in DicKeys
        THEN LET t == trans_dic(g)[base]
             IN  Trans(t.target \o <<unit[Len(unit)]>>,
                       NumPow(t.cunit, n), t.crho * n, t.clam2 * n)
        ELSE None

RECURSIVE findtrans(_, _)

\* findtrans with the trailing-digit test made before the '/' and '.' tests
findtrans_PowerFirst(g, unit0) ==
    LET unit == Lower(unit0)
    IN  IF unit \in DicKeys THEN trans_dic(g)[unit]
        ELSE IF Len(unit) = 0 THEN Raised
        ELSE IF unit[Len(unit)] \in Digits THEN PowTrans(g, unit)
        ELSE IF Contains(unit, "/")
        THEN LET parts == Split(unit, "/")
             IN  IF Len(parts) # 2 THEN Raised
                 ELSE DivTrans(findtrans(g, parts[1]), findtrans(g, parts[2]))
        ELSE IF Contains(unit, ".")
        THEN LET parts == Split(unit, ".")
             IN  DotTrans(g, [i \in 1..Len(parts) |-> findtrans(g, parts[i])])
        ELSE None

findtrans(g, unit0) ==
    LET unit == Lower(unit0)
    IN  IF unit \in DicKeys THEN trans_dic(g)[unit]
        ELSE IF Contains(unit, "/")
        THEN LET parts == Split(unit, "/")
             IN  IF Len(parts) # 2 THEN Raised
                 ELSE DivTrans(findtrans(g, parts[1]), findtrans(g, parts[2]))
        ELSE IF Contains(unit, ".")
        THEN LET parts == Split(unit, ".")
             IN  DotTrans(g, [i \in 1..Len(parts) |-> findtrans(g, parts[i])])
        ELSE IF Len(unit) = 0 THEN Raised
        ELSE IF unit[Len(unit)] \in Digits THEN PowTrans(g, unit)
        ELSE None

---------------------------------------------------------------------------
(* The arguments of to_fullscale: rho and g in thousandths; the first is   *)
(* the default of the signature.                                           *)

Params ==
    { [rho |-> 1025, lam |-> 60, g |-> 9807],
      [rho |-> 1000, lam |-> 50, g |-> 9810] }

---------------------------------------------------------------------------
(* findtrans on its own: the unit strings it is given *)

Alphabet == {"m", "s", "N", "k", "g", "/", ".", "2", "x"}

RECURSIVE SeqsUpTo(_, _)
\* all strings over S of length at most n
SeqsUpTo(S, n) ==
    IF n = 0 THEN {<<>>}
    ELSE LET shorter == SeqsUpTo(S, n - 1)
         IN  shorter \cup {Append(t, c) : t \in shorter, c \in S}

\* every spelling of u in upper and lower case letters
CaseVariants(u) ==
    {v \in [1..Len(u) -> {p[1] : p \in CasePairs} \cup {p[2] : p \in CasePairs}] :
        Lower(v) = Lower(u)}

NamedTokens ==
    { <<"k","g","/","s","2">>, <<"m","/","s",".","s">>, <<"x","y","z">>,
      <<"k","g",".","m","/","s","2">>, <<"m","/","s","/","s">>,
      <<"c","m","2">>, <<"m","m",".","s">>, <<"d","e","g","/","s">>,
      <<"k","N">>, <<"m","0">> }

Tokens ==
    SeqsUpTo(Alphabet, MaxTokenLen) \cup NamedTokens
        \cup UNION {CaseVariants(k) : k \in DicKeys}

\* the object's variables while only findtrans is studied
NoObject ==
    /\ file = <<>> /\ s_seg = [kind |-> "all", k |-> 0] /\ f_pos = 0 /\ i_seg = 0 /\ hdr = <<>>
    /\ seg_info = <<>> /\ seg_stat_buf = <<>> /\ data_buf = <<>>
    /\ chN = 0 /\ fs = 0 /\ segN = 0 /\ scale = "model" /\ rholam = <<>>
    /\ chInfo = <<>> /\ data = <<>> /\ seg_statistic = <<>> /\ segInfo = <<>>
    /\ nFix = 0 /\ outcome = [op |-> "none", res |-> "none"]

progVars == <<file, s_seg, f_pos, i_seg, hdr, seg_info, seg_stat_buf, data_buf,
              chN, fs, segN, scale, rholam, chInfo, data, seg_statistic, segInfo,
              nFix, outcome>>

InitResolve ==
    /\ NoObject
    /\ pc = "resolve"
    /\ r_g \in {p.g : p \in Params}
    /\ r_unit \in Tokens
    /\ r_trans = <<>>

\* one top-level call findtrans(trans_dic, unit), trans_dic built from g
Resolve ==
    /\ pc = "resolve"
    /\ r_trans' = findtrans(r_g, r_unit)
    /\ pc' = "resolved"
    /\ UNCHANGED <<r_g, r_unit, progVars>>

NextResolve == Resolve

SpecResolve == InitResolve /\ [][NextResolve]_vars

---------------------------------------------------------------------------
(* The *.out file *)

\* sizes of the binary layout, in bytes
HeadBytes == 256

NameBytes == 16

UnitBytes == 4

CoefBytes == 4

IdBytes == 2

SegHeadBytes == 256

StatBytes == 10

SampleBytes == 2

AlignBytes == 128

\* samp_num = seg_info[2] - SampOffset
SampOffset == 5

Max(a, b) == IF a >= b THEN a ELSE b

Min(a, b) == IF a <= b THEN a ELSE b

\* the int16 written for channel c in row r of segment i (1-based)
RawSample(i, r, c) == ((7 * i + 3 * r + 5 * c) % 9) - 4

\* the k-th number of the statistics block of segment i
RawStat(i, k) == ((5 * i + 2 * k) % 7) - 3

\* the coefficient written for channel c
RawCoef(c) == c + 1

\* units written for the channels of a well-formed file, by position
UnitCycle(c) ==
    <<  <<"k","g">>, <<"m","/","s","2">>, <<"c","m">>, <<"s">> >>[((c - 1) % 4) + 1]

Unresolvable == <<"x","y","z">>

\* a file: header fields, channel tables, segments; len is the stream length
MkFile(index, n, hz, samps, wide, names, units) ==
    [ index  |-> index,
      chN    |-> n,
      fs     |-> hz,
      segN   |-> Len(samps),
      chName |-> names,
      chUnit |-> units,
      chCoef |-> [c \in 1..n |-> RawCoef(c)],
      segs   |-> [i \in 1..Len(samps) |->
                    LET sc == IF wide /\ i = Len(samps) THEN n + 1 ELSE n
                    IN  [ seg_index |-> i - 1,
                          seg_chn   |-> sc,
                          samp      |-> samps[i],
                          stat      |-> [k \in 1..(4 * sc) |-> RawStat(i, k)],
                          rows      |-> [r \in 1..(samps[i] - SampOffset) |->
                                            [c \in 1..sc |-> RawSample(i, r, c)]] ]],
      len    |-> 0 ]

\* where the instrument puts things: every segment starts on the next
\* multiple of AlignBytes after the block before it
PadTo(p) == ((p + AlignBytes - 1) \div AlignBytes) * AlignBytes

TablesEnd(f) ==
    HeadBytes + f.chN * (NameBytes + UnitBytes + CoefBytes)
        + (IF f.index < -1 THEN f.chN * IdBytes ELSE 0)

RECURSIVE SegEnd(_, _)
\* SegEnd(f, i): end of the sample block of segment i (1-based), SegEnd(f, 0)
\* the end of the channel tables
SegEnd(f, i) ==
    IF i = 0 THEN TablesEnd(f)
    ELSE PadTo(SegEnd(f, i - 1)) + SegHeadBytes
            + f.segs[i].seg_chn * StatBytes
            + (f.segs[i].samp - SampOffset) * f.segs[i].seg_chn * SampleBytes

SegHdrOff(f, i) == PadTo(SegEnd(f, i - 1))

SampleStart(f, i) == SegHdrOff(f, i) + SegHeadBytes + f.segs[i].seg_chn * StatBytes

FullLen(f) == SegEnd(f, f.segN)

\* stream lengths studied: the whole file, and the file cut in the header,
\* in the channel tables, in a segment header, and at and inside every row
Lengths(f) ==
    {FullLen(f), 100, TablesEnd(f) - 1}
      \cup UNION { {SegHdrOff(f, i) + 10}
                    \cup {SampleStart(f, i) + k * f.segs[i].seg_chn * SampleBytes + d :
                            k \in 0..(f.segs[i].samp - SampOffset - 1), d \in {0, 1}}
                  : i \in 1..f.segN }

\* the s_seg argument: 'all', an int, or anything else
SelAll == [kind |-> "all", k |-> 0]

SelInt(k) == [kind |-> "int", k |-> k]

SelOther == [kind |-> "other", k |-> 0]

HeaderVariants ==
    { [index |-> -2, fs |-> 50], [index |-> 1, fs |-> 50], [index |-> 1, fs |-> 0] }

SampSeqs == UNION {[1..n -> SampOffset..(SampOffset + MaxRows)] : n \in 0..MaxSeg}

\* files for the study of read()
DecodeFiles ==
    { MkFile(h.index, n, h.fs, samps, wide,
             [c \in 1..n |-> c], [c \in 1..n |-> UnitCycle(c)]) :
        h \in HeaderVariants, n \in 1..MaxCh, samps \in SampSeqs, wide \in BOOLEAN }

---------------------------------------------------------------------------
(* __init__ and read() *)

\* math.ceil(p / 128)
Ceil128(p) == IF p % AlignBytes = 0 THEN p \div AlignBytes ELSE (p \div AlignBytes) + 1

\* the seek argument with the quotient rounded down
AlignUp_Floor(p_cur) == AlignBytes * (p_cur \div AlignBytes)

\* the argument of f_in.seek: 128 * math.ceil(p_cur / 128)
AlignUp(p_cur) == AlignBytes * Ceil128(p_cur)

\* f_in.read(n) at pos returns all n bytes
ReadOK(pos, n) == pos + n <= file.len

\* a decoded number, not yet multiplied by any full-scale factor
Val(x) == [v |-> x, fac |-> <<>>]

Fail ==
    /\ pc' = "failed"
    /\ UNCHANGED <<f_pos, i_seg, hdr, seg_info, seg_stat_buf, data_buf, chN, fs, segN,
                   chInfo, data, seg_statistic, segInfo>>

\* __init__, and read() up to the segment loop
Construct ==
    /\ pc = "new"
    /\ UNCHANGED <<file, s_seg, scale, rholam, nFix, outcome, r_g, r_unit, r_trans>>
    /\ LET n   == file.chN
           end == HeadBytes + n * NameBytes + n * UnitBytes + n * CoefBytes
                    + (IF file.index < -1 THEN n * IdBytes ELSE 0)
       IN  IF ~ReadOK(0, HeadBytes) \/ ~ReadOK(HeadBytes, end - HeadBytes)
           THEN Fail
           ELSE /\ pc' = "reading"
                /\ chN' = n
                /\ fs' = file.fs
                /\ segN' = file.segN
                /\ chInfo' = [c \in 1..n |->
                                [Name |-> file.chName[c], Unit |-> file.chUnit[c],
                                 Coef |-> file.chCoef[c]]]
                /\ f_pos' = end
                /\ i_seg' = 0
                /\ hdr' = <<>>
                /\ seg_info' = <<>>
                /\ seg_stat_buf' = <<>>
                /\ data_buf' = <<>>
                /\ UNCHANGED <<data, seg_statistic, segInfo>>

\* one turn of the loop 'for i_seg in range(self.segN)'
ReadSegment ==
    /\ pc = "reading"
    /\ i_seg < segN
    /\ UNCHANGED <<file, s_seg, scale, rholam, nFix, outcome, r_g, r_unit, r_trans>>
    /\ LET p_cur    == f_pos
           off      == AlignUp(p_cur)
           seg      == file.segs[i_seg + 1]
           seg_chn  == seg.seg_chn
           samp_num == seg.samp - SampOffset
           statAt   == off + SegHeadBytes
           rowsAt   == statAt + seg_chn * StatBytes
           rowLen   == seg_chn * SampleBytes
           avail    == Max(0, file.len - rowsAt)
           nfull    == Min(samp_num, avail \div rowLen)
           rest     == avail - nfull * rowLen
       IN  IF \/ ~ReadOK(off, SegHeadBytes)
              \/ ~ReadOK(statAt, seg_chn * StatBytes)
              \/ (nfull < samp_num /\ rest # 0)
           THEN Fail
           ELSE /\ pc' = "reading"
                /\ hdr' = Append(hdr, [p_cur |-> p_cur, off |-> off])
                /\ seg_info' = Append(seg_info,
                       [seg_index |-> seg.seg_index, seg_chn |-> seg_chn,
                        samp |-> seg.samp])
                /\ seg_stat_buf' = Append(seg_stat_buf, seg.stat)
                /\ data_buf' = Append(data_buf, SubSeq(seg.rows, 1, nfull))
                /\ f_pos' = rowsAt + nfull * rowLen
                /\ i_seg' = i_seg + 1
                /\ UNCHANGED <<chN, fs, segN, chInfo, data, seg_statistic, segInfo>>

\* seq[k] of a Python list
PyIndexOK(seq, k) == -Len(seq) <= k /\ k < Len(seq)

PyIndex(seq, k) == IF k >= 0 THEN seq[k + 1] ELSE seq[Len(seq) + k + 1]

\* a slice bound as Python clips it
PyBound(n, b) == IF b < 0 THEN Max(0, n + b) ELSE Min(n, b)

\* seq[a:b]
PySlice(seq, a, b) == SubSeq(seq, PyBound(Len(seq), a) + 1, PyBound(Len(seq), b))

\* the block reshaped to (chN, 4) with no transposition
StatCell_NoTranspose(stat, m, j) == stat[(m - 1) * 4 + j]

\* np.reshape(stat, (4, chN)).transpose()[m][j], m and j counted from 1
StatCell(stat, m, j) == stat[(j - 1) * chN + m]

\* seg_statistic_temp of segment n after 'seg_statistic_temp[m] *= chCoef[m]'
StatFrame(n) ==
    [m \in 1..chN |->
        [ Mean |-> Val(StatCell(seg_stat_buf[n], m, 1) * chInfo[m].Coef),
          STD  |-> Val(StatCell(seg_stat_buf[n], m, 2) * chInfo[m].Coef),
          Max  |-> Val(StatCell(seg_stat_buf[n], m, 3) * chInfo[m].Coef),
          Min  |-> Val(StatCell(seg_stat_buf[n], m, 4) * chInfo[m].Coef),
          Unit |-> chInfo[m].Unit ]]

\* data_temp of segment n after 'data_temp[:, m] *= chCoef[m]'
DataFrame(n) ==
    [r \in 1..Len(data_buf[n]) |->
        [m \in 1..chN |-> Val(data_buf[n][r][m] * chInfo[m].Coef)]]

\* segInfo: the row of segment n (index label and 'N sample')
SegInfoRow(n) ==
    [index |-> n - 1, nsample |-> seg_info[n].samp - SampOffset]

\* an exception in the part of read() after the file is closed
ConvertRaises ==
    \/ segN > 0 /\ fs = 0
    \/ \E n \in 1..segN : 4 * seg_info[n].seg_chn # 4 * chN
    \/ \E n \in 1..segN : Len(data_buf[n]) = 0
    \/ \E n \in 1..segN : Len(data_buf[n]) # seg_info[n].samp - SampOffset
    \/ s_seg.kind = "other"
    \/ s_seg.kind = "int" /\ ~PyIndexOK(data_buf, s_seg.k)

\* read() after the segment loop: the tables, and the selection by s_seg
Finish ==
    /\ pc = "reading"
    /\ i_seg = segN
    /\ UNCHANGED <<file, s_seg, scale, rholam, nFix, outcome, r_g, r_unit, r_trans>>
    /\ IF ConvertRaises
       THEN Fail
       ELSE LET allStat == [n \in 1..segN |-> StatFrame(n)]
                allData == [n \in 1..segN |-> DataFrame(n)]
                allInfo == [n \in 1..segN |-> SegInfoRow(n)]
                k       == s_seg.k
            IN  /\ pc' = "done"
                /\ IF s_seg.kind = "all"
                   THEN /\ data' = allData
                        /\ segInfo' = allInfo
                        /\ seg_statistic' = allStat
                        /\ segN' = segN
                   ELSE /\ data' = <<PyIndex(allData, k)>>
                        /\ segInfo' = PySlice(allInfo, k, k + 1)
                        /\ seg_statistic' = <<PyIndex(allStat, k)>>
                        /\ segN' = 1
                /\ UNCHANGED <<f_pos, i_seg, hdr, seg_info, seg_stat_buf, data_buf,
                               chN, fs, chInfo>>

Selectors == {SelAll, SelOther} \cup {SelInt(k) : k \in (-MaxSeg)..MaxSeg}

InitObject ==
    /\ pc = "new"
    /\ f_pos = 0 /\ i_seg = 0 /\ hdr = <<>>
    /\ seg_info = <<>> /\ seg_stat_buf = <<>> /\ data_buf = <<>>
    /\ chN = 0 /\ fs = 0 /\ segN = 0 /\ scale = "model" /\ rholam = <<>>
    /\ chInfo = <<>> /\ data = <<>> /\ seg_statistic = <<>> /\ segInfo = <<>>
    /\ nFix = 0 /\ outcome = [op |-> "none", res |-> "none"]
    /\ r_g = 0 /\ r_unit = <<>> /\ r_trans = <<>>

\* a file, whole with any selector or cut short with the default selector
InitDecode ==
    /\ InitObject
    /\ \E f \in DecodeFiles :
        \E L \in Lengths(f) :
          /\ file = [f EXCEPT !.len = L]
          /\ s_seg \in IF L = FullLen(f) THEN Selectors ELSE {SelAll}

NextDecode == Construct \/ ReadSegment \/ Finish

SpecDecode == InitDecode /\ [][NextDecode]_vars

---------------------------------------------------------------------------
(* fix_unit and to_fullscale *)

\* units given to fix_unit
FixUnits == { <<"m">>, <<"N">>, <<"k","g","/","s","2">> }

\* fix_unit(c_chN, unit): self.chInfo['Unit'].loc[c_chN] = unit, taken to
\* write through to chInfo (pandas without copy-on-write)
fix_unit(c, unit) ==
    /\ pc = "done"
    /\ nFix < MaxFix
    /\ nFix' = nFix + 1
    /\ chInfo' = [chInfo EXCEPT ![c].Unit = unit]
    /\ outcome' = [op |-> "fix_unit", res |-> "ok"]
    /\ UNCHANGED <<pc, file, s_seg, f_pos, i_seg, hdr, seg_info, seg_stat_buf,
                   data_buf, chN, fs, segN, scale, rholam, data, seg_statistic,
                   segInfo, r_g, r_unit, r_trans>>

\* the test 'self.scale == "prototype"' that opens to_fullscale
IsUpscaled_Never == FALSE

IsUpscaled == scale = "prototype"

\* C = C1 * C2 * C3 for a channel with the coefficients t, under arguments p
FullC(p, t) ==
    [ cunit |-> t.cunit,
      rho   |-> IF t.crho = 0 THEN 0 ELSE p.rho,
      crho  |-> t.crho,
      lam   |-> IF t.clam2 = 0 THEN 0 ELSE p.lam,
      clam2 |-> t.clam2 ]

\* x *= C
Mul(x, C) == [x EXCEPT !.fac = Append(@, C)]

\* what the loop over self.chInfo['Unit'] computes: findtrans of every unit
ResolveAll(p) == [c \in 1..chN |-> findtrans(p.g, chInfo[c].Unit)]

\* chInfo when findtrans fails for some channel: the channels before the
\* first failing one already hold their new unit and coefficients
ChInfoOnRaise_Partial(p, ts) ==
    LET bad == CHOOSE c \in 1..chN : ~IsTrans(ts[c]) /\ \A d \in 1..(c-1) : IsTrans(ts[d])
    IN  [c \in 1..chN |->
            IF c < bad THEN [chInfo[c] EXCEPT !.Unit = ts[c].target] ELSE chInfo[c]]

\* chInfo when findtrans fails for some channel: the columns are assigned
\* only after the loop, so nothing is written
ChInfoOnRaise(p, ts) == chInfo

\* chInfo after the loop: Unit replaced, the three coefficient columns
\* added, the column Coef deleted
ChInfoConverted(ts) ==
    [c \in 1..chN |->
        [ Name      |-> chInfo[c].Name,
          Unit      |-> ts[c].target,
          Coeffunit |-> ts[c].cunit,
          Coeffrho  |-> ts[c].crho,
          Coefflam2 |-> ts[c].clam2 ]]

RECURSIVE ScaleColumn(_, _, _, _, _)
\* a value of column c after the turns idx2..chN of the inner loop:
\* self.data[idx1][name] addresses every column that bears the name
ScaleColumn(x, c, idx2, p, ts) ==
    IF idx2 > chN THEN x
    ELSE ScaleColumn(IF chInfo[idx2].Name = chInfo[c].Name
                     THEN Mul(x, FullC(p, ts[idx2])) ELSE x,
                     c, idx2 + 1, p, ts)

\* the loops with the outer one stopping after the first segment
DataConverted_FirstSegment(p, ts) ==
    [idx1 \in 1..Len(data) |->
        IF idx1 <= 1
        THEN [r \in 1..Len(data[idx1]) |->
                [c \in 1..chN |-> ScaleColumn(data[idx1][r][c], c, 1, p, ts)]]
        ELSE data[idx1]]

\* self.data after the two loops over segments and channel names
DataConverted(p, ts) ==
    [idx1 \in 1..Len(data) |->
        IF idx1 <= segN
        THEN [r \in 1..Len(data[idx1]) |->
                [c \in 1..chN |-> ScaleColumn(data[idx1][r][c], c, 1, p, ts)]]
        ELSE data[idx1]]

\* to_fullscale(rho, lam, g)
to_fullscale(p) ==
    /\ pc = "done"
    /\ UNCHANGED <<pc, file, s_seg, f_pos, i_seg, hdr, seg_info, seg_stat_buf,
                   data_buf, chN, fs, segN, seg_statistic, segInfo, nFix,
                   r_g, r_unit, r_trans>>
    /\ IF IsUpscaled
       THEN /\ outcome' = [op |-> "to_fullscale", res |-> "noop"]
            /\ UNCHANGED <<scale, rholam, chInfo, data>>
       ELSE LET ts == ResolveAll(p)
            IN  /\ rholam' = <<p.rho, p.lam>>
                /\ scale' = "prototype"
                /\ IF \E c \in 1..chN : ~IsTrans(ts[c])
                   THEN /\ outcome' = [op |-> "to_fullscale", res |-> "raised"]
                        /\ chInfo' = ChInfoOnRaise(p, ts)
                        /\ data' = data
                   ELSE /\ outcome' = [op |-> "to_fullscale", res |-> "ok"]
                        /\ chInfo' = ChInfoConverted(ts)
                        /\ data' = DataConverted(p, ts)

\* the unit tables of n channels: every channel with the unit of its
\* position or an unknown one
UnitTables(n) == [1..n -> {Unresolvable}] \cup
    {u \in [1..n -> {UnitCycle(c) : c \in 1..n} \cup {Unresolvable}] :
        \A c \in 1..n : u[c] \in {UnitCycle(c), Unresolvable}}

\* files for the study of the scaling: whole and well formed, the second
\* channel named as the first or not
ScaleFiles ==
    UNION { { MkFile(1, n, 50, [i \in 1..k |-> SampOffset + 1 + (i % 2)], FALSE,
                     [c \in 1..n |-> IF dup /\ c = 2 THEN 1 ELSE c], units) :
                k \in 1..MaxSeg, dup \in BOOLEAN, units \in UnitTables(n) }
          : n \in 1..MaxCh }

Init ==
    /\ InitObject
    /\ \E f \in ScaleFiles : file = [f EXCEPT !.len = FullLen(f)]
    /\ s_seg \in {SelAll, SelInt(0)}

Next ==
    \/ Construct
    \/ ReadSegment
    \/ Finish
    \/ \E c \in 1..chN, unit \in FixUnits : fix_unit(c, unit)
    \/ \E p \in Params : to_fullscale(p)

Spec == Init /\ [][Next]_vars

---------------------------------------------------------------------------
(* Properties of read() (SpecDecode) *)

\* the segment of the file (counted from 1) that entry idx of the retained
\* tables is taken from
RetainedSeg(idx) ==
    IF s_seg.kind = "int"
    THEN (IF s_seg.k >= 0 THEN s_seg.k + 1 ELSE file.segN + s_seg.k + 1)
    ELSE idx

\* C1: after a successful decode every sample row and each of the four
\* statistics of every channel c of every retained segment is the raw value
\* of the file times the coefficient of c, and of no other channel.
C1_CoefficientScaling ==
    pc = "done" =>
        \A idx \in 1..Len(data) :
            LET seg == file.segs[RetainedSeg(idx)]
            IN  /\ Len(data[idx]) = seg.samp - SampOffset
                /\ \A c \in 1..file.chN :
                      LET k == file.chCoef[c]
                      IN  /\ \A r \in 1..Len(data[idx]) :
                                data[idx][r][c] = Val(seg.rows[r][c] * k)
                          /\ seg_statistic[idx][c].Mean = Val(seg.stat[c] * k)
                          /\ seg_statistic[idx][c].STD = Val(seg.stat[seg.seg_chn + c] * k)
                          /\ seg_statistic[idx][c].Max = Val(seg.stat[2 * seg.seg_chn + c] * k)
                          /\ seg_statistic[idx][c].Min = Val(seg.stat[3 * seg.seg_chn + c] * k)

\* C1 witness: a decode of two segments of two rows and two channels whose
\* second channel holds a value that its coefficient changed
C1_Witness ==
    /\ pc = "done"
    /\ file.chN >= 2
    /\ Len(data) = 2
    /\ Len(data[2]) = 2
    /\ data[2][2][2].v # file.segs[2].rows[2][2]
    /\ seg_statistic[2][2].STD.v # 0

\* the stream ends inside the sample block of segment i (counted from 1),
\* after its header and statistics block
CutInSamples(i) ==
    /\ i \in 1..file.segN
    /\ SampleStart(file, i) <= file.len
    /\ file.len < SegEnd(file, i)

WellFormed ==
    /\ file.fs > 0
    /\ \A i \in 1..file.segN : file.segs[i].seg_chn = file.chN

\* C2: if the stream ends inside the sample block of segment i, decode does
\* not fail; it returns segments 0..i, segment i holding only the rows read
\* completely, fewer than rawSampleCount-5, and no segment after i.
C2_TruncationTolerated ==
    \A i \in 1..MaxSeg + 1 :
        (pc \in {"done", "failed"} /\ file # <<>> /\ WellFormed /\ CutInSamples(i)) =>
            /\ pc = "done"
            /\ Len(data) = i
            /\ Len(data[i]) < file.segs[i].samp - SampOffset
            /\ Len(data[i]) =
                  (file.len - SampleStart(file, i)) \div (file.chN * SampleBytes)

\* C7: a decode that succeeds with the integer selector k on a file of n
\* segments has 0 <= k < n, reports one segment, and retains exactly one
\* sample table, one statistics table and one header row, all of segment k;
\* any other selector that is not 'all' yields no object.
C7_IntegerSelector ==
    (pc = "done" /\ s_seg.kind # "all") =>
        /\ s_seg.kind = "int"
        /\ 0 <= s_seg.k /\ s_seg.k < file.segN
        /\ segN = 1
        /\ Len(data) = 1 /\ Len(seg_statistic) = 1 /\ Len(segInfo) = 1
        /\ segInfo[1].index = s_seg.k
        /\ segInfo[1].nsample = Len(data[1])
        /\ data[1] = DataFrame(s_seg.k + 1)
        /\ seg_statistic[1] = StatFrame(s_seg.k + 1)

\* C9: the header of every segment is read at a multiple of 128, the
\* smallest one not below the end of the block before it (the channel
\* tables, or the sample block of the segment before).
C9_HeaderAligned ==
    (file # <<>>) =>
        \A i \in 1..Len(hdr) :
            /\ hdr[i].off % 128 = 0
            /\ hdr[i].p_cur = SegEnd(file, i - 1)
            /\ hdr[i].p_cur <= hdr[i].off
            /\ hdr[i].off < hdr[i].p_cur + 128

\* C9 witness: two segments read from a file with an ID table, the second
\* after padding was skipped
C9_Witness ==
    /\ pc = "done"
    /\ file.index < -1
    /\ Len(hdr) = 2
    /\ hdr[1].off > hdr[1].p_cur
    /\ hdr[2].off > hdr[2].p_cur

---------------------------------------------------------------------------
(* Properties of to_fullscale and fix_unit (Spec) *)

\* to_fullscale has converted the object: chInfo holds the new columns
Converted ==
    /\ pc = "done"
    /\ scale = "prototype"
    /\ \A c \in 1..chN : "Coeffunit" \in DOMAIN chInfo[c]

\* a call of to_fullscale that changed something
CallStep == outcome'.op = "to_fullscale" /\ vars' # vars

\* some channel's unit is one that findtrans does not resolve
HasUnresolvable ==
    \E c \in 1..chN : \E p \in Params : ~IsTrans(findtrans(p.g, chInfo[c].Unit))

\* C of channel c for the arguments p, from the unit the channel now has
ChannelC(p, c) == FullC(p, findtrans(p.g, chInfo[c].Unit))

\* the channels named as channel c, in the order of the table
SameNamed(c) == {d \in 1..chN : chInfo[d].Name = chInfo[c].Name}

\* the j-th of them
NthSameNamed(c, j) ==
    CHOOSE d \in SameNamed(c) : Cardinality({e \in SameNamed(c) : e < d}) = j - 1

\* C3 (as amended): a successful to_fullscale on a file in state model
\* multiplies every sample value of every retained segment by C =
\* unitFactor * rho^rhoExponent * lam^lamExponent of the channels that bear
\* the name of its column, in the order of the table (so exactly once, by
\* the C of its own channel, where names are distinct), and changes no
\* statistic value.
C3_SamplesScaledStatisticsKept ==
    [][ (pc = "done" /\ scale = "model"
         /\ outcome' = [op |-> "to_fullscale", res |-> "ok"]) =>
            \E p \in Params :
               /\ rholam' = <<p.rho, p.lam>>
               /\ Len(data') = Len(data)
               /\ \A idx \in 1..Len(data) :
                     /\ Len(data'[idx]) = Len(data[idx])
                     /\ \A r \in 1..Len(data[idx]) : \A c \in 1..chN :
                           LET old == data[idx][r][c]
                               new == data'[idx][r][c]
                               k   == Cardinality(SameNamed(c))
                           IN  /\ new.v = old.v
                               /\ Len(new.fac) = Len(old.fac) + k
                               /\ SubSeq(new.fac, 1, Len(old.fac)) = old.fac
                               /\ \A j \in 1..k :
                                     new.fac[Len(old.fac) + j]
                                        = ChannelC(p, NthSameNamed(c, j))
               /\ seg_statistic' = seg_statistic ]_vars

\* C3 (as claimed): a successful to_fullscale on a file in state model
\* multiplies every sample value and every statistic value (mean, std,
\* max, min) of every channel, in every retained segment, by the C of that
\* channel, exactly once.
C3_SamplesAndStatisticsScaled ==
    [][ (pc = "done" /\ scale = "model"
         /\ outcome' = [op |-> "to_fullscale", res |-> "ok"]) =>
            \E p \in Params :
               /\ rholam' = <<p.rho, p.lam>>
               /\ \A idx \in 1..Len(data) : \A c \in 1..chN :
                     /\ \A r \in 1..Len(data[idx]) :
                           data'[idx][r][c] = Mul(data[idx][r][c], ChannelC(p, c))
                     /\ seg_statistic'[idx][c].Mean
                           = Mul(seg_statistic[idx][c].Mean, ChannelC(p, c))
                     /\ seg_statistic'[idx][c].STD
                           = Mul(seg_statistic[idx][c].STD, ChannelC(p, c))
                     /\ seg_statistic'[idx][c].Max
                           = Mul(seg_statistic[idx][c].Max, ChannelC(p, c))
                     /\ seg_statistic'[idx][c].Min
                           = Mul(seg_statistic[idx][c].Min, ChannelC(p, c)) ]_vars

\* C3 witness: a converted object of two segments and two channels of
\* distinct names, the samples of the kg channel multiplied once by a factor
\* with rho^1 and lam^3, its statistics by none
C3_Witness ==
    /\ Converted
    /\ outcome = [op |-> "to_fullscale", res |-> "ok"]
    /\ chN = 2 /\ chInfo[1].Name # chInfo[2].Name
    /\ Len(data) = 2
    /\ Len(data[2][1][1].fac) = 1
    /\ data[2][1][1].fac[1].crho = 1 /\ data[2][1][1].fac[1].clam2 = 6
    /\ seg_statistic[2][1].Mean.fac = <<>>

\* C4 (as amended): when the unit of some channel is unresolvable,
\* to_fullscale changes the unit, coefficient, samples and statistics of no
\* channel, whatever the position of that channel; it fails if the file is
\* in state model, and returns as already upscaled, without failing, if the
\* file is in state prototype.
C4_UnresolvableMutatesNoChannel ==
    [][ (pc = "done" /\ CallStep /\ HasUnresolvable) =>
            /\ chInfo' = chInfo
            /\ data' = data
            /\ seg_statistic' = seg_statistic
            /\ scale = "model" => outcome'.res = "raised"
            /\ scale = "prototype" => outcome'.res = "noop" ]_vars

\* C4 (as claimed): when the unit of some channel is unresolvable,
\* to_fullscale fails and changes the unit, coefficient, samples and
\* statistics of no channel.
C4_UnresolvableFailsMutatesNoChannel ==
    [][ (pc = "done" /\ CallStep /\ HasUnresolvable) =>
            /\ outcome'.res = "raised"
            /\ chInfo' = chInfo
            /\ data' = data
            /\ seg_statistic' = seg_statistic ]_vars

\* C4 witness: to_fullscale raised on the second channel's unit, the first
\* channel being resolvable and left as it was
C4_Witness ==
    /\ pc = "done"
    /\ outcome = [op |-> "to_fullscale", res |-> "raised"]
    /\ chN = 2
    /\ \A p \in Params : IsTrans(findtrans(p.g, chInfo[1].Unit))
    /\ chInfo[2].Unit = Unresolvable
    /\ chInfo[1].Unit = <<"k","g">> /\ "Coef" \in DOMAIN chInfo[1]
    /\ data[1][1][1].fac = <<>>

\* C8: to_fullscale called on an object already converted, with any rho,
\* lam and g, changes no sample, no statistic, no unit or coefficient of
\* any channel, nor the scale state.
C8_SecondCallNoOp ==
    [][ (Converted /\ outcome'.op = "to_fullscale") =>
            /\ outcome'.res = "noop"
            /\ data' = data
            /\ seg_statistic' = seg_statistic
            /\ chInfo' = chInfo
            /\ scale' = scale
            /\ rholam' = rholam ]_vars

\* C8 witness: a converted object on which to_fullscale was called again
C8_Witness ==
    /\ Converted
    /\ outcome = [op |-> "to_fullscale", res |-> "noop"]
    /\ \E idx \in 1..Len(data) : Len(data[idx][1][1].fac) = 1

\* C10: scale is prototype only if the full-scale factors were applied to
\* the samples of every channel; a to_fullscale call that fails on an
\* unresolvable unit leaves scale = model, so that a later call converts.
C10_PrototypeOnlyIfConverted ==
    /\ (pc = "done" /\ scale = "prototype") =>
            \A idx \in 1..Len(data) : \A r \in 1..Len(data[idx]) : \A c \in 1..chN :
                data[idx][r][c].fac # <<>>
    /\ (pc = "done" /\ outcome = [op |-> "to_fullscale", res |-> "raised"]) =>
            scale = "model"

---------------------------------------------------------------------------
(* Properties of findtrans (SpecResolve) *)

\* the dictionary keys whose lower-case spelling is that of u
KeysOf(u) == {k \in DicKeys : Lower(k) = Lower(u)}

\* C5: resolution is case-insensitive and every one of the eight dictionary
\* tokens, in any letter case, resolves by the exact hit to its dictionary
\* entry; N gives (kN, 0.001, 1, 3) and kg gives (kN, 0.001*g, 1, 3).
C5_DictionaryTokenAnyCase ==
    (pc = "resolved" /\ KeysOf(r_unit) # {}) =>
        /\ IsTrans(r_trans)
        /\ \A k \in KeysOf(r_unit) : r_trans = trans_dic(r_g)[k]
        /\ Lower(r_unit) = <<"n">> =>
               r_trans = Trans(<<"k","N">>, Num(r_g, 0, -3), 1, 6)
        /\ Lower(r_unit) = <<"k","g">> =>
               r_trans = Trans(<<"k","N">>, Num(r_g, 1, -3), 1, 6)

\* C6: for a unit that is no dictionary key, division is tried before the
\* dot compound and the dot compound before the power suffix: A/B with
\* resolvable A and B yields (targetA/targetB, factorA/factorB, rhoA-rhoB,
\* lamA-lamB) whatever dots or trailing digit A and B hold, A.B likewise the
\* product; kg/s2 gives (kN/s2, 0.001*g, 1, 2), m/s gives (m/s, 1, 0, 0.5),
\* m2 gives (m2, 1, 0, 2); a unit matching no rule fails.
C6_DivisionDotPowerOrder ==
    pc = "resolved" =>
        LET u  == Lower(r_unit)
            ps == Split(u, "/")
            ds == Split(u, ".")
        IN  /\ (u \notin DicKeys /\ Len(ps) = 2
                 /\ IsTrans(findtrans(r_g, ps[1])) /\ IsTrans(findtrans(r_g, ps[2]))) =>
                   LET a == findtrans(r_g, ps[1])
                       b == findtrans(r_g, ps[2])
                   IN  /\ IsTrans(r_trans)
                       /\ r_trans.target = a.target \o <<"/">> \o b.target
                       /\ r_trans.cunit.ge = a.cunit.ge - b.cunit.ge
                       /\ r_trans.cunit.p10 = a.cunit.p10 - b.cunit.p10
                       /\ r_trans.crho = a.crho - b.crho
                       /\ r_trans.clam2 = a.clam2 - b.clam2
            /\ (u \notin DicKeys /\ Len(ps) = 1 /\ Len(ds) = 2
                 /\ IsTrans(findtrans(r_g, ds[1])) /\ IsTrans(findtrans(r_g, ds[2]))) =>
                   LET a == findtrans(r_g, ds[1])
                       b == findtrans(r_g, ds[2])
                   IN  /\ IsTrans(r_trans)
                       /\ r_trans.target = a.target \o <<".">> \o b.target
                       /\ r_trans.cunit.ge = a.cunit.ge + b.cunit.ge
                       /\ r_trans.cunit.p10 = a.cunit.p10 + b.cunit.p10
                       /\ r_trans.crho = a.crho + b.crho
                       /\ r_trans.clam2 = a.clam2 + b.clam2
            /\ r_unit = <<"k","g","/","s","2">> =>
                   r_trans = Trans(<<"k","N","/","s","2">>, Num(r_g, 1, -3), 1, 4)
            /\ r_unit = <<"m","/","s">> =>
                   r_trans = Trans(<<"m","/","s">>, Num(r_g, 0, 0), 0, 1)
            /\ r_unit = <<"m","2">> =>
                   r_trans = Trans(<<"m","2">>, Num(r_g, 0, 0), 0, 4)
            /\ r_unit = <<"x","y","z">> => ~IsTrans(r_trans)
            /\ (u \notin DicKeys /\ Len(ps) = 1 /\ Len(ds) = 1
                 /\ (Len(u) = 0 \/ u[Len(u)] \notin Digits)) => ~IsTrans(r_trans)

\* C6 witness: kg/s2 was resolved, as the quotient of kg and s2
C6_Witness ==
    /\ pc = "resolved"
    /\ r_unit = <<"k","g","/","s","2">>
    /\ IsTrans(r_trans)
    /\ r_trans.clam2 = 4

====
